---- MODULE Spec2Model ----
(***************************************************************************)
(* uni_rc_lock: the trait UniversalRcLock (src/src/lib.rs) and its two     *)
(* bindings, Rc<RefCell<T>> and Arc<RwLock<T>>, together with the client   *)
(* operations the crate's tests and doc examples perform on a container:   *)
(* construct, clone, spawn a thread with a clone, read(), write(),         *)
(* `val += 1` through a write guard, guard drop, handle drop, panic and    *)
(* thread exit.                                                            *)
(*                                                                         *)
(* A handle is a pointer to a reference-counted allocation that holds the  *)
(* value and its access-tracking cell.  read() and write() of the bindings *)
(* delegate to RefCell::borrow / borrow_mut and to RwLock::read / write    *)
(* followed by expect(); they are modelled by what those calls do: RefCell *)
(* keeps a signed borrow flag (0 unused, n > 0 shared borrows, -1 one      *)
(* exclusive borrow) and panics on a conflict; RwLock keeps a reader       *)
(* count, a writer bit and a poison flag, blocks on a conflict, and        *)
(* reports poison after it has acquired.                                   *)
(***************************************************************************)
EXTENDS Integers, Sequences, FiniteSets

VARIABLES
    binding,   \* the binding the program is instantiated with: "Rc", "Arc", or "Both" (the same program once on each)
    w,         \* w[b]: the program instantiated with binding b: its heap, handles, guards and threads
    script     \* script[t]: what is left of thread t's program in tests::threads_test_arc

vars == <<binding, w, script>>

\* ---------------------------------------------------------------- bounds
\* threads of the program (the main thread is thread 1)
NThreads == 3
\* threads the unscripted client spawns
MaxSpawned == 1
\* handles the unscripted client keeps alive at once
MaxHandles == 2
\* guards one thread holds at once
MaxGuards == 2
\* increments applied to one container
MaxIncr == 2

Threads == 1..NThreads
Bindings == {"Rc", "Arc"}
\* the initial values the tests construct a container with
InitVals == {0, 42}

\* ---------------------------------------------------------------- helpers
RemoveAt(s, i) == [j \in 1..(Len(s) - 1) |-> IF j < i THEN s[j] ELSE s[j + 1]]

\* the outcome of the read()/write() call on allocation a that the last step
\* made or completed
Last(t, op, a, out) == [t |-> t, op |-> op, a |-> a, out |-> out]
NoCall == Last(0, "none", 0, "none")

\* the allocations of program c, and every live guard as <<thread, position>>
Allocs(c) == 1..Len(c.heap)
GuardIds(c) == UNION {{<<t, i>> : i \in 1..Len(c.guards[t])} : t \in Threads}
GuardAt(c, id) == c.guards[id[1]][id[2]]
ReadGuards(c, a) == {id \in GuardIds(c) : GuardAt(c, id).a = a /\ GuardAt(c, id).kind = "r"}
WriteGuards(c, a) == {id \in GuardIds(c) : GuardAt(c, id).a = a /\ GuardAt(c, id).kind = "w"}
HoldsWrite(c, t, a) == \E i \in 1..Len(c.guards[t]) : c.guards[t][i].a = a /\ c.guards[t][i].kind = "w"
HoldsAny(c, t, a) == \E i \in 1..Len(c.guards[t]) : c.guards[t][i].a = a
\* every live handle as <<thread, position>>, and those that point to allocation a
HandleIds(c) == UNION {{<<t, i>> : i \in 1..Len(c.handles[t])} : t \in Threads}
HandlesTo(c, a) == {p \in HandleIds(c) : c.handles[p[1]][p[2]] = a}
Owns(c, t) == c.handles[t] # <<>>

\* ---------------------------------------------------------------- construction
\* RefCell::new / RwLock::new
NewCell(b) ==
    IF b = "Rc" THEN [borrow |-> 0]
    ELSE [readers |-> 0, writer |-> FALSE, poisoned |-> FALSE]

\* the allocation behind Rc::new(RefCell::new(State { val: v })) or
\* Arc::new(RwLock::new(State { val: v })): the value, its cell and the strong
\* count.  init and left remember the value at construction and the value at
\* the last write-guard drop.
NewAlloc(b, v) ==
    [val |-> v, cell |-> NewCell(b), strong |-> 1, freed |-> FALSE,
     init |-> v, left |-> v]

\* the program after the main thread has constructed the container: one
\* allocation, one handle, owned by the main thread; no other thread runs yet
NewProgram(b, v) ==
    [kind |-> b,
     heap |-> <<NewAlloc(b, v)>>,
     handles |-> [t \in Threads |-> IF t = 1 THEN <<1>> ELSE <<>>],
     guards |-> [t \in Threads |-> <<>>],
     pc |-> [t \in Threads |-> IF t = 1 THEN "run" ELSE "new"],
     req |-> [t \in Threads |-> 0],
     reg |-> [t \in Threads |-> 0],
     last |-> NoCall]

\* a guard: the access it grants, the allocation it dereferences to, and the
\* value it viewed when it was handed out
Guard(k, a, v) == [kind |-> k, a |-> a, seen |-> v]

\* the allocation thread t's i-th handle points to (Rc::deref / Arc::deref)
Deref(c, t, i) == c.handles[t][i]

\* ---------------------------------------------------------------- single-threaded binding
\* Panicked that leaves a borrow behind in the RefCell
PanickedBorrowing(c, t, a, op) ==
    [c EXCEPT !.heap[a].cell = IF c.kind = "Rc" THEN [borrow |-> @.borrow + 1] ELSE @,
              !.pc[t] = "unwind", !.req[t] = 0, !.last = Last(t, op, a, "panic")]

\* a call that panics: nothing of the container changes, the thread unwinds
Panicked(c, t, a, op) ==
    [c EXCEPT !.pc[t] = "unwind", !.req[t] = 0, !.last = Last(t, op, a, "panic")]

\* RcRead without the check of the borrow flag
RcReadUnchecked(c, t, a) ==
    {[c EXCEPT !.heap[a].cell.borrow = @ + 1,
               !.guards[t] = Append(@, Guard("r", a, c.heap[a].val)),
               !.last = Last(t, "read", a, "guard")]}

\* RcRead with the check of borrow_mut(): any outstanding borrow stops it
RcReadExclusive(c, t, a) ==
    IF c.heap[a].cell.borrow = 0
    THEN {[c EXCEPT !.heap[a].cell.borrow = @ + 1,
                    !.guards[t] = Append(@, Guard("r", a, c.heap[a].val)),
                    !.last = Last(t, "read", a, "guard")]}
    ELSE {Panicked(c, t, a, "read")}

\* read(): Rc::deref(self).borrow()
RcRead(c, t, a) ==
    IF c.heap[a].cell.borrow >= 0
        THEN {[c EXCEPT !.heap[a].cell.borrow = @ + 1,
                        !.guards[t] = Append(@, Guard("r", a, c.heap[a].val)),
                        !.last = Last(t, "read", a, "guard")]}
        ELSE {Panicked(c, t, a, "read")}

\* RcWrite with the check of the borrow flag weakened: shared borrows no
\* longer stop an exclusive one
RcWriteOverReaders(c, t, a) ==
    IF c.heap[a].cell.borrow >= 0
    THEN {[c EXCEPT !.heap[a].cell.borrow = -1,
                    !.guards[t] = Append(@, Guard("w", a, c.heap[a].val)),
                    !.last = Last(t, "write", a, "guard")]}
    ELSE {Panicked(c, t, a, "write")}

\* write(): Rc::deref(self).borrow_mut()
RcWrite(c, t, a) ==
    IF c.heap[a].cell.borrow = 0
        THEN {[c EXCEPT !.heap[a].cell.borrow = -1,
                        !.guards[t] = Append(@, Guard("w", a, c.heap[a].val)),
                        !.last = Last(t, "write", a, "guard")]}
        ELSE {Panicked(c, t, a, "write")}

\* ---------------------------------------------------------------- multi-threaded binding
\* a call that cannot be served yet: the thread waits inside read()/write()
Blocked(c, t, a, op, at) ==
    [c EXCEPT !.pc[t] = at, !.req[t] = a, !.last = Last(t, op, a, "block")]

\* RwLock::read() has acquired shared access; .expect("Read lock should not be
\* poisoned") then panics on a poisoned lock (the guard inside the error is
\* dropped again, so the lock is left as it was) and hands out the guard otherwise
ArcGotRead(c, t, a) ==
    IF c.heap[a].cell.poisoned
        THEN Panicked(c, t, a, "read")
        ELSE [c EXCEPT !.heap[a].cell.readers = @ + 1,
                       !.guards[t] = Append(@, Guard("r", a, c.heap[a].val)),
                       !.pc[t] = "run", !.req[t] = 0,
                       !.last = Last(t, "read", a, "guard")]

\* RwLock::write() has acquired exclusive access; .expect("Write lock should not
\* be poisoned")
ArcGotWrite(c, t, a) ==
    IF c.heap[a].cell.poisoned
        THEN Panicked(c, t, a, "write")
        ELSE [c EXCEPT !.heap[a].cell.writer = TRUE,
                       !.guards[t] = Append(@, Guard("w", a, c.heap[a].val)),
                       !.pc[t] = "run", !.req[t] = 0,
                       !.last = Last(t, "write", a, "guard")]

\* ArcReadable without the test for a writer
ArcReadableAlways(c, a) == TRUE

\* shared access can be taken: no writer holds the lock
ArcReadable(c, a) == ~c.heap[a].cell.writer

\* ArcWritable without the test for readers
ArcWritableOverReaders(c, a) == ~c.heap[a].cell.writer

\* exclusive access can be taken: nobody holds the lock
ArcWritable(c, a) == ~c.heap[a].cell.writer /\ c.heap[a].cell.readers = 0

\* some thread waits inside write() on allocation a
WriterWaiting(c, a) == \E u \in Threads : c.pc[u] = "waitW" /\ c.req[u] = a

\* ArcRead that asks for exclusive access, as write() does
ArcReadExclusive(c, t, a) ==
    IF ArcWritable(c, a)
    THEN {ArcGotRead(c, t, a)}
    ELSE {Blocked(c, t, a, "read", "waitR")}

\* read(): Arc::deref(self).read().expect(..).  With a writer inside, the call
\* waits.  With no writer inside it is served, except that RwLock's priority
\* policy is the platform's: while a thread waits in write() a new reader may
\* be made to wait as well.  A thread that holds the write guard itself may
\* panic instead of waiting (RwLock::read: "might panic when called if the
\* lock is already held by the current thread").
ArcRead(c, t, a) ==
    IF ArcReadable(c, a)
        THEN {ArcGotRead(c, t, a)}
             \cup (IF WriterWaiting(c, a) THEN {Blocked(c, t, a, "read", "waitR")} ELSE {})
        ELSE {Blocked(c, t, a, "read", "waitR")}
             \cup (IF HoldsWrite(c, t, a) THEN {Panicked(c, t, a, "read")} ELSE {})

\* ArcWrite on a re-entrant lock: a thread that holds the lock is served
ArcWriteReentrant(c, t, a) ==
    IF ArcWritable(c, a) \/ HoldsAny(c, t, a)
    THEN {ArcGotWrite(c, t, a)}
    ELSE {Blocked(c, t, a, "write", "waitW")}

\* ArcWrite that never waits
ArcWriteNoWait(c, t, a) == {ArcGotWrite(c, t, a)}

\* write(): Arc::deref(self).write().expect(..).  Waits while any reader or
\* writer is inside; a thread that holds a guard itself may panic instead.
ArcWrite(c, t, a) ==
    IF ArcWritable(c, a)
        THEN {ArcGotWrite(c, t, a)}
        ELSE {Blocked(c, t, a, "write", "waitW")}
             \cup (IF HoldsAny(c, t, a) THEN {Panicked(c, t, a, "write")} ELSE {})

\* ArcWake that wakes readers only
ArcWakeReadersOnly(c, t) ==
    IF c.pc[t] = "waitR" /\ ArcReadable(c, c.req[t])
    THEN {ArcGotRead(c, t, c.req[t])}
    ELSE {}

\* a thread waiting inside read()/write() is woken and its call returns
ArcWake(c, t) ==
    IF c.pc[t] = "waitR" /\ ArcReadable(c, c.req[t])
    THEN {ArcGotRead(c, t, c.req[t])}
    ELSE IF c.pc[t] = "waitW" /\ ArcWritable(c, c.req[t])
    THEN {ArcGotWrite(c, t, c.req[t])}
    ELSE {}

\* ---------------------------------------------------------------- the trait's operations
\* Read whose Arc implementation calls write()
ReadViaWrite(c, t, a) == IF c.kind = "Rc" THEN RcRead(c, t, a) ELSE ArcWrite(c, t, a)

\* UniversalRcLock::read, dispatched on the implementing type
Read(c, t, a) == IF c.kind = "Rc" THEN RcRead(c, t, a) ELSE ArcRead(c, t, a)

\* UniversalRcLock::write
Write(c, t, a) == IF c.kind = "Rc" THEN RcWrite(c, t, a) ELSE ArcWrite(c, t, a)

\* ---------------------------------------------------------------- guards
\* RcRelease that resets the borrow flag
RcReleaseToIdle(cell, g) == [borrow |-> 0]

\* Ref / RefMut dropped: the borrow flag moves back towards 0
RcRelease(cell, g) ==
    [borrow |-> IF g.kind = "r" THEN cell.borrow - 1 ELSE cell.borrow + 1]

\* ArcRelease that leaves the lock held when a panicking thread drops its
\* write guard
ArcReleaseStuck(cell, g, panicking) ==
    IF g.kind = "r"
    THEN [cell EXCEPT !.readers = @ - 1]
    ELSE [cell EXCEPT !.writer = panicking, !.poisoned = @ \/ panicking]

\* ArcRelease that never poisons
ArcReleaseNoPoison(cell, g, panicking) ==
    IF g.kind = "r"
    THEN [cell EXCEPT !.readers = @ - 1]
    ELSE [cell EXCEPT !.writer = FALSE]

\* RwLockReadGuard / RwLockWriteGuard dropped; a write guard dropped while its
\* thread is panicking poisons the lock, a read guard never does
ArcRelease(cell, g, panicking) ==
    IF g.kind = "r"
    THEN [cell EXCEPT !.readers = @ - 1]
    ELSE [cell EXCEPT !.writer = FALSE, !.poisoned = @ \/ panicking]

\* DropGuard that puts back the value the guard was handed out with
DropGuardRollback(c, t, i) ==
    LET g == c.guards[t][i]
    IN  [c EXCEPT !.heap[g.a].cell = IF c.kind = "Rc" THEN RcRelease(@, g)
                                     ELSE ArcRelease(@, g, c.pc[t] = "unwind"),
                  !.heap[g.a].val = g.seen,
                  !.heap[g.a].left = g.seen,
                  !.guards[t] = RemoveAt(@, i),
                  !.last = NoCall]

\* thread t's i-th guard leaves scope
DropGuard(c, t, i) ==
    LET g == c.guards[t][i]
    IN  [c EXCEPT !.heap[g.a].cell = IF c.kind = "Rc" THEN RcRelease(@, g)
                                     ELSE ArcRelease(@, g, c.pc[t] = "unwind"),
                  !.heap[g.a].left = IF g.kind = "w" THEN c.heap[g.a].val ELSE @,
                  !.guards[t] = RemoveAt(@, i),
                  !.last = NoCall]

\* `val += 1` through thread t's i-th guard, a write guard (DerefMut): the
\* value is loaded into a register ...
Load(c, t, i) ==
    [c EXCEPT !.reg[t] = c.heap[c.guards[t][i].a].val, !.last = NoCall]

\* ... and the register plus one is stored back
Store(c, t, i) ==
    [c EXCEPT !.heap[c.guards[t][i].a].val = c.reg[t] + 1, !.reg[t] = 0, !.last = NoCall]

\* `val += 1` in one step
Mutate(c, t, i) == Store(Load(c, t, i), t, i)

\* ---------------------------------------------------------------- handles
\* CloneTo that leaves the strong count as it is
CloneToUncounted(c, a, u) ==
    [c EXCEPT !.handles[u] = Append(@, a),
              !.last = NoCall]

\* CloneTo that copies the container instead of the pointer
CloneDeep(c, a, u) ==
    [c EXCEPT !.heap = Append(@, [c.heap[a] EXCEPT !.cell = NewCell(c.kind), !.strong = 1]),
              !.handles[u] = Append(@, Len(c.heap) + 1),
              !.last = NoCall]

\* Clone::clone of a handle to allocation a, the clone going to thread u: the
\* strong count goes up and the new handle points to the same allocation
CloneTo(c, a, u) ==
    [c EXCEPT !.heap[a].strong = @ + 1,
              !.handles[u] = Append(@, a),
              !.last = NoCall]

\* let h2 = h.clone();
Clone(c, t, a) == CloneTo(c, a, t)

\* the thread the next thread::spawn starts
NextThread(c) == CHOOSE u \in Threads : c.pc[u] = "new" /\ \A x \in Threads : c.pc[x] = "new" => u <= x

\* let h2 = h.clone(); thread::spawn(move || ..): the clone moves into the
\* new thread u
Spawn(c, a, u) == [CloneTo(c, a, u) EXCEPT !.pc[u] = "run"]

\* DropHandle that frees the allocation whatever the strong count
DropHandleFrees(c, t, i) ==
    LET a == Deref(c, t, i)
    IN  [c EXCEPT !.heap[a].strong = @ - 1,
                  !.heap[a].freed = TRUE,
                  !.handles[t] = RemoveAt(@, i),
                  !.last = NoCall]

\* thread t's i-th handle leaves scope: the strong count goes down, and the
\* allocation is freed with the last handle
DropHandle(c, t, i) ==
    LET a == Deref(c, t, i)
    IN  [c EXCEPT !.heap[a].strong = @ - 1,
                  !.heap[a].freed = (c.heap[a].strong = 1),
                  !.handles[t] = RemoveAt(@, i),
                  !.last = NoCall]

\* ---------------------------------------------------------------- panics and thread end
\* user code of thread t panics
Panic(c, t) == [c EXCEPT !.pc[t] = "unwind", !.last = NoCall]

\* the unwinding reaches a catch_unwind and the thread goes on
Catch(c, t) == [c EXCEPT !.pc[t] = "run", !.last = NoCall]

RECURSIVE DropAllGuards(_, _)
DropAllGuards(c, t) ==
    IF c.guards[t] = <<>> THEN c
    ELSE DropAllGuards(DropGuard(c, t, Len(c.guards[t])), t)

RECURSIVE DropAllHandles(_, _)
DropAllHandles(c, t) ==
    IF ~Owns(c, t) THEN c
    ELSE DropAllHandles(DropHandle(c, t, Len(c.handles[t])), t)

\* Exit that gives up the handles and forgets the guards
ExitLeaking(c, t) ==
    [DropAllHandles(c, t) EXCEPT !.pc[t] = "dead", !.last = NoCall]

\* thread t ends, by returning or by unwinding to its top: its guards, then
\* its handles, leave scope
Exit(c, t) ==
    [DropAllHandles(DropAllGuards(c, t), t) EXCEPT !.pc[t] = "dead", !.last = NoCall]

\* ---------------------------------------------------------------- the unscripted client
\* thread t can call a method on a handle to allocation a
CanCall(c, t, a) == c.pc[t] = "run" /\ \E i \in 1..Len(c.handles[t]) : Deref(c, t, i) = a
Active(c, t) == c.pc[t] \in {"run", "unwind"}
Fits(c, t) == Len(c.guards[t]) <= MaxGuards
\* a handle outlives the guards borrowed from it: thread t keeps a handle to
\* an allocation it holds guards on
Droppable(c, t, i) ==
    HoldsAny(c, t, Deref(c, t, i)) =>
        Cardinality({p \in HandlesTo(c, Deref(c, t, i)) : p[1] = t}) > 1

Init ==
    /\ binding \in Bindings
    /\ \E v \in InitVals : w = [b \in Bindings |-> NewProgram(b, v)]
    /\ script = [t \in Threads |-> <<>>]

Cur == w[binding]
Becomes(c) == w' = [w EXCEPT ![binding] = c] /\ UNCHANGED <<binding, script>>

DoRead ==
    \E t \in Threads : \E a \in Allocs(Cur) :
        /\ CanCall(Cur, t, a)
        /\ \E c \in Read(Cur, t, a) : Fits(c, t) /\ Becomes(c)

DoWrite ==
    \E t \in Threads : \E a \in Allocs(Cur) :
        /\ CanCall(Cur, t, a)
        /\ \E c \in Write(Cur, t, a) : Fits(c, t) /\ Becomes(c)

\* thread t, waiting inside read()/write(), finds the lock available
WakeOf(t) ==
    /\ Cur.kind = "Arc"
    /\ \E c \in ArcWake(Cur, t) : Fits(c, t) /\ Becomes(c)

DoWake == \E t \in Threads : WakeOf(t)

DoMutate ==
    \E t \in Threads : \E i \in 1..Len(Cur.guards[t]) :
        /\ Cur.pc[t] = "run"
        /\ Cur.guards[t][i].kind = "w"
        /\ Cur.heap[Cur.guards[t][i].a].val < Cur.heap[Cur.guards[t][i].a].init + MaxIncr
        /\ Becomes(Mutate(Cur, t, i))

DoDropGuard ==
    \E t \in Threads : \E i \in 1..Len(Cur.guards[t]) :
        /\ Active(Cur, t)
        /\ Becomes(DropGuard(Cur, t, i))

DoClone ==
    \E t \in Threads : \E a \in Allocs(Cur) :
        /\ CanCall(Cur, t, a)
        /\ Cardinality(HandleIds(Cur)) < MaxHandles
        /\ Becomes(Clone(Cur, t, a))

\* Send for every handle type
SendAlways(c) == TRUE

\* the handle type is Send, so thread::spawn(move || ..) accepts a closure that
\* captures a handle: Arc<RwLock<T>> is, Rc<RefCell<T>> is not ("This won't
\* compile with Rc")
Send(c) == c.kind = "Arc"

\* only a handle that is Send moves to a thread
DoSpawn ==
    \E t \in Threads : \E a \in Allocs(Cur) :
        /\ Send(Cur)
        /\ CanCall(Cur, t, a)
        /\ Cardinality(HandleIds(Cur)) < MaxHandles
        /\ \E u \in Threads : Cur.pc[u] = "new"
        /\ Cardinality({u \in Threads : Cur.pc[u] # "new"}) <= MaxSpawned
        /\ Becomes(Spawn(Cur, a, NextThread(Cur)))

DoDropHandle ==
    \E t \in Threads : \E i \in 1..Len(Cur.handles[t]) :
        /\ Active(Cur, t)
        /\ Droppable(Cur, t, i)
        /\ Becomes(DropHandle(Cur, t, i))

DoPanic ==
    \E t \in Threads :
        /\ Cur.pc[t] = "run"
        /\ Owns(Cur, t)
        /\ Becomes(Panic(Cur, t))

DoCatch ==
    \E t \in Threads :
        /\ Cur.pc[t] = "unwind"
        /\ Becomes(Catch(Cur, t))

\* thread t ends
ExitOf(t) == Active(Cur, t) /\ Becomes(Exit(Cur, t))

DoExit == \E t \in Threads : ExitOf(t)

Next ==
    \/ DoRead
    \/ DoWrite
    \/ DoWake
    \/ DoMutate
    \/ DoDropGuard
    \/ DoClone
    \/ DoSpawn
    \/ DoDropHandle
    \/ DoPanic
    \/ DoCatch
    \/ DoExit

Spec == Init /\ [][Next]_vars


\* ---------------------------------------------------------------- tests::threads_test_arc
\* the main thread spawns one worker per other thread, joins them all and
\* reads; every worker does `h.state.write().val += 1` and ends
Workers == Threads \ {1}
MainScript == [i \in 1..(NThreads - 1) |-> "spawn"] \o <<"join", "read", "drop">>
WorkerScript == <<"write", "load", "store", "drop", "exit">>

InitThreads ==
    /\ binding = "Arc"
    /\ \E v \in InitVals : w = [b \in Bindings |-> NewProgram(b, v)]
    /\ script = [t \in Threads |-> IF t = 1 THEN MainScript ELSE WorkerScript]

\* thread t is at statement op of its script, and running
At(t, op) == script[t] # <<>> /\ Head(script[t]) = op /\ Cur.pc[t] = "run"
Advance(t, c) ==
    /\ w' = [w EXCEPT ![binding] = c]
    /\ script' = [script EXCEPT ![t] = Tail(@)]
    /\ UNCHANGED binding

TSpawn == At(1, "spawn") /\ Advance(1, Spawn(Cur, Deref(Cur, 1, 1), NextThread(Cur)))

TJoin == At(1, "join") /\ (\A u \in Workers : Cur.pc[u] = "dead") /\ Advance(1, Cur)

TRead == At(1, "read") /\ \E c \in Read(Cur, 1, Deref(Cur, 1, 1)) : Advance(1, c)

TWrite == \E t \in Workers : At(t, "write") /\ \E c \in Write(Cur, t, Deref(Cur, t, 1)) : Advance(t, c)

TWake == \E t \in Threads : \E c \in ArcWake(Cur, t) : Becomes(c)

TLoad == \E t \in Workers : At(t, "load") /\ Advance(t, Load(Cur, t, 1))

TStore == \E t \in Workers : At(t, "store") /\ Advance(t, Store(Cur, t, 1))

TDrop == \E t \in Threads : At(t, "drop") /\ Advance(t, DropGuard(Cur, t, 1))

TExit == \E t \in Workers : At(t, "exit") /\ Advance(t, Exit(Cur, t))

NextThreads ==
    \/ TSpawn
    \/ TJoin
    \/ TRead
    \/ TWrite
    \/ TWake
    \/ TLoad
    \/ TStore
    \/ TDrop
    \/ TExit

SpecThreads == InitThreads /\ [][NextThreads]_vars

\* ---------------------------------------------------------------- threads that run to their end
\* the multi-threaded example with threads that take and drop guards as they
\* like: a thread calls read()/write() while it has room for the guard, a
\* panic unwinds to the top of its thread, and the threads are scheduled
\* fairly: a waiting thread that finds the lock available from some point on
\* is served, and an unwinding thread drops the guards it holds
InitLive ==
    /\ binding = "Arc"
    /\ \E v \in InitVals : w = [b \in Bindings |-> NewProgram(b, v)]
    /\ script = [t \in Threads |-> <<>>]

HasRoom(c, t) == Len(c.guards[t]) < MaxGuards

LRead ==
    \E t \in Threads : \E a \in Allocs(Cur) :
        /\ CanCall(Cur, t, a) /\ HasRoom(Cur, t)
        /\ \E c \in Read(Cur, t, a) : Becomes(c)

LWrite ==
    \E t \in Threads : \E a \in Allocs(Cur) :
        /\ CanCall(Cur, t, a) /\ HasRoom(Cur, t)
        /\ \E c \in Write(Cur, t, a) : Becomes(c)

\* the unwinding of thread t runs the destructor of the guard declared last
UnwindOf(t) ==
    /\ Cur.pc[t] = "unwind"
    /\ Cur.guards[t] # <<>>
    /\ Becomes(DropGuard(Cur, t, Len(Cur.guards[t])))

NextLive ==
    \/ DoSpawn
    \/ LRead
    \/ LWrite
    \/ DoWake
    \/ DoDropGuard
    \/ DoPanic
    \/ DoExit

Fairness == \A t \in Threads : WF_vars(WakeOf(t)) /\ WF_vars(UnwindOf(t))

SpecLive == InitLive /\ [][NextLive]_vars /\ Fairness

\* ---------------------------------------------------------------- one program on both bindings
\* the doc example "Using with Rc" / "Using with Arc in exactly the same way":
\* the main thread runs the same operations on an Rc<RefCell<State>> and on
\* an Arc<RwLock<State>>, none of them an acquisition that conflicts with a
\* guard it still holds
InitPair ==
    /\ binding = "Both"
    /\ \E v \in InitVals : w = [b \in Bindings |-> NewProgram(b, v)]
    /\ script = [t \in Threads |-> <<>>]

Pair(r, x) ==
    /\ w' = [b \in Bindings |-> IF b = "Rc" THEN r ELSE x]
    /\ UNCHANGED <<binding, script>>

\* an acquisition by thread t that conflicts with no outstanding guard
NoConflict(c, t, a, op) ==
    /\ CanCall(c, t, a)
    /\ WriteGuards(c, a) = {}
    /\ op = "write" => ReadGuards(c, a) = {}

PRead ==
    \E a \in Allocs(w["Rc"]) \cap Allocs(w["Arc"]) :
        /\ \A b \in Bindings : NoConflict(w[b], 1, a, "read")
        /\ \E r \in Read(w["Rc"], 1, a), x \in Read(w["Arc"], 1, a) :
            Fits(r, 1) /\ Fits(x, 1) /\ Pair(r, x)

PWrite ==
    \E a \in Allocs(w["Rc"]) \cap Allocs(w["Arc"]) :
        /\ \A b \in Bindings : NoConflict(w[b], 1, a, "write")
        /\ \E r \in Write(w["Rc"], 1, a), x \in Write(w["Arc"], 1, a) :
            Fits(r, 1) /\ Fits(x, 1) /\ Pair(r, x)

PMutate ==
    \E i \in 1..Len(w["Rc"].guards[1]) :
        /\ \A b \in Bindings :
            /\ w[b].pc[1] = "run"
            /\ i <= Len(w[b].guards[1])
            /\ w[b].guards[1][i].kind = "w"
            /\ w[b].heap[w[b].guards[1][i].a].val < w[b].heap[w[b].guards[1][i].a].init + MaxIncr
        /\ Pair(Mutate(w["Rc"], 1, i), Mutate(w["Arc"], 1, i))

PDropGuard ==
    \E i \in 1..Len(w["Rc"].guards[1]) :
        /\ \A b \in Bindings : w[b].pc[1] = "run" /\ i <= Len(w[b].guards[1])
        /\ Pair(DropGuard(w["Rc"], 1, i), DropGuard(w["Arc"], 1, i))

PClone ==
    \E a \in Allocs(w["Rc"]) \cap Allocs(w["Arc"]) :
        /\ \A b \in Bindings : CanCall(w[b], 1, a) /\ Cardinality(HandleIds(w[b])) < MaxHandles
        /\ Pair(Clone(w["Rc"], 1, a), Clone(w["Arc"], 1, a))

\* the closing brace of the example's block: a handle leaves scope
PDropHandle ==
    \E i \in 1..Len(w["Rc"].handles[1]) :
        /\ \A b \in Bindings :
            /\ w[b].pc[1] = "run"
            /\ i <= Len(w[b].handles[1])
            /\ Droppable(w[b], 1, i)
        /\ Pair(DropHandle(w["Rc"], 1, i), DropHandle(w["Arc"], 1, i))

NextPair ==
    \/ PRead
    \/ PWrite
    \/ PMutate
    \/ PDropGuard
    \/ PClone
    \/ PDropHandle

SpecPair == InitPair /\ [][NextPair]_vars

\* what a client can observe of its program: the values, the handles, the
\* guards with the values they view, where each thread is, and the outcome
\* of the last call
Obs(c) ==
    [vals |-> [a \in Allocs(c) |-> c.heap[a].val],
     handles |-> c.handles,
     guards |-> c.guards,
     pc |-> c.pc,
     last |-> c.last]

\* ================================================================ claims
Progs == IF binding = "Both" THEN Bindings ELSE {binding}
NRead(c, a) == Cardinality(ReadGuards(c, a))
NWrite(c, a) == Cardinality(WriteGuards(c, a))

\* C1: for both bindings, in every reachable state and for every container,
\* either no guard is live, or exactly one write guard and no read guard, or
\* one or more read guards and no write guard, whatever handles (clones) the
\* guards were obtained from.
C1_AccessExclusion ==
    \A b \in Bindings : \A a \in Allocs(w[b]) :
        \/ NRead(w[b], a) = 0 /\ NWrite(w[b], a) = 0
        \/ NRead(w[b], a) = 0 /\ NWrite(w[b], a) = 1
        \/ NRead(w[b], a) >= 1 /\ NWrite(w[b], a) = 0

\* two read guards are live at once on a container that has been cloned
C1_Witness ==
    \E b \in Bindings : NRead(w[b], 1) >= 2 /\ w[b].heap[1].strong >= 2

\* C2: in tests::threads_test_arc with N = NThreads - 1 workers, each doing one
\* write-guarded `val += 1` on its own clone, once all workers have finished
\* the value is the initial value plus N, and that is what the main thread's
\* read guard views, on every interleaving.
C2_NoLostUpdates ==
    (\A u \in Workers : w["Arc"].pc[u] = "dead") =>
        /\ w["Arc"].heap[1].val = w["Arc"].heap[1].init + (NThreads - 1)
        /\ \A i \in 1..Len(w["Arc"].guards[1]) :
            w["Arc"].guards[1][i].seen = w["Arc"].heap[1].init + (NThreads - 1)

\* all workers have finished and the main thread holds its read guard
C2_Witness ==
    /\ \A u \in Workers : w["Arc"].pc[u] = "dead"
    /\ script[1] = <<"drop">>
    /\ Len(w["Arc"].guards[1]) = 1
    /\ w["Arc"].guards[1][1].kind = "r"

\* C3: for both bindings, a read guard views the value left by the most
\* recently dropped write guard, or the value the container was constructed
\* with if no write guard has been dropped yet, and the container holds that
\* value for as long as the read guard lives.
C3_ReadSeesLastWrite ==
    \A b \in Bindings : \A id \in GuardIds(w[b]) :
        GuardAt(w[b], id).kind = "r" =>
            /\ GuardAt(w[b], id).seen = w[b].heap[GuardAt(w[b], id).a].left
            /\ w[b].heap[GuardAt(w[b], id).a].val = w[b].heap[GuardAt(w[b], id).a].left

\* a read guard views a value that a write guard mutated and left
C3_Witness ==
    \E b \in Bindings : \E id \in GuardIds(w[b]) :
        /\ GuardAt(w[b], id).kind = "r"
        /\ GuardAt(w[b], id).seen = w[b].heap[1].init + 1
        /\ w[b].heap[1].left = w[b].heap[1].init + 1

\* C4: for both bindings, every handle, the original and every clone, points
\* to the one container that was constructed, so a read guard obtained from
\* any of them views the value left in that container by the last write
\* guard, whichever handle that write guard was obtained from.
C4_ClonesShare ==
    \A b \in Bindings :
        /\ \A p \in HandleIds(w[b]) : Deref(w[b], p[1], p[2]) = 1
        /\ w[b].heap[1].strong = Cardinality(HandleIds(w[b]))
        /\ \A id \in GuardIds(w[b]) :
            GuardAt(w[b], id).kind = "r" => GuardAt(w[b], id).seen = w[b].heap[1].left

\* two threads, each through its own handle, hold read guards that view a
\* mutated value: at least one of the two handles is not the one the
\* mutation was made through
C4_Witness ==
    \E b \in Bindings : \E t, u \in Threads :
        /\ t # u
        /\ \E i \in 1..Len(w[b].guards[t]) :
            w[b].guards[t][i].kind = "r" /\ w[b].guards[t][i].seen # w[b].heap[1].init
        /\ \E j \in 1..Len(w[b].guards[u]) :
            w[b].guards[u][j].kind = "r" /\ w[b].guards[u][j].seen # w[b].heap[1].init

\* C5: on a program whose acquisitions never conflict with an outstanding
\* guard, run by one thread once on each binding, every operation has the
\* same outcome on both bindings and every read guard views the same value.
C5_Interchangeable ==
    binding = "Both" => Obs(w["Rc"]) = Obs(w["Arc"])

\* on both bindings: after write, `val += 1`, drop and read, the read guard
\* views the initial value plus one, through a clone as well
C5_Witness ==
    /\ binding = "Both"
    /\ \A b \in Bindings :
        /\ w[b].last = Last(1, "read", 1, "guard")
        /\ Len(w[b].handles[1]) = 2
        /\ w[b].guards[1] = <<Guard("r", 1, w[b].heap[1].init + 1)>>

\* ---------------------------------------------------------------- steps
\* the step from program c to program d is a read()/write() call op of thread
\* t, or the return of one that had been waiting
CallStep(c, d, t, op) == d.last.t = t /\ d.last.op = op /\ d # c
\* ... and thread t made the call in this step
Issued(c, d, t, op) == CallStep(c, d, t, op) /\ c.pc[t] = "run"
\* thread t has one more guard after the step
Gained(c, d, t) == Len(d.guards[t]) > Len(c.guards[t])
\* an outstanding guard conflicts with acquisition op on allocation a
Conflict(c, a, op) ==
    IF op = "write" THEN NRead(c, a) + NWrite(c, a) > 0 ELSE NWrite(c, a) > 0
\* a guard of a thread other than t conflicts with acquisition op
OthersConflict(c, t, a, op) ==
    \E u \in Threads \ {t} :
        IF op = "write" THEN HoldsAny(c, u, a) ELSE HoldsWrite(c, u, a)
Waiting(c, t) == c.pc[t] \in {"waitR", "waitW"}
WaitOp(c, t) == IF c.pc[t] = "waitW" THEN "write" ELSE "read"
Poisoned(c, a) == c.heap[a].cell.poisoned
\* the step releases a guard (a write guard) of thread t while t unwinds
ReleasedUnwinding(c, d, t) == c.pc[t] = "unwind" /\ Len(d.guards[t]) < Len(c.guards[t])
WriteReleasedUnwinding(c, d, t, a) ==
    c.pc[t] = "unwind" /\ HoldsWrite(c, t, a) /\ ~HoldsWrite(d, t, a)

\* C6: in the single-threaded binding, write() called while any guard is
\* outstanding on the container, and read() called while a write guard is
\* outstanding, panics in the call: the thread unwinds, no guard is handed
\* out, nothing of the container changes, and no thread ever waits.
C6_RcConflictPanics ==
    [][\A t \in Threads : \A op \in {"read", "write"} :
        /\ (CallStep(w["Rc"], w'["Rc"], t, op) /\ Conflict(w["Rc"], w'["Rc"].last.a, op)) =>
            /\ w'["Rc"].last.out = "panic"
            /\ w'["Rc"].pc[t] = "unwind"
            /\ w'["Rc"].guards = w["Rc"].guards
            /\ w'["Rc"].heap = w["Rc"].heap
        /\ ~Waiting(w'["Rc"], t)
        /\ w'["Rc"].last.out \in {"none", "guard", "panic"}]_vars

\* a write() has just panicked on a container with a read guard outstanding
C6_Witness ==
    /\ w["Rc"].last = Last(1, "write", 1, "panic")
    /\ w["Rc"].pc[1] = "unwind"
    /\ NRead(w["Rc"], 1) >= 1

\* C7 as claimed: in the multi-threaded binding, once a thread has released a
\* guard, read or write, by unwinding from a panic the lock is poisoned, a
\* poisoned lock stays poisoned, and no read() or write() on it ever hands
\* out a guard: the call panics (after the wait for the lock, if it had to
\* wait).
C7_AnyHolderPoisons ==
    [][\A t \in Threads : \A a \in Allocs(w["Arc"]) :
        /\ ReleasedUnwinding(w["Arc"], w'["Arc"], t) => Poisoned(w'["Arc"], a)
        /\ Poisoned(w["Arc"], a) =>
            /\ Poisoned(w'["Arc"], a)
            /\ ~Gained(w["Arc"], w'["Arc"], t)
            /\ \A op \in {"read", "write"} :
                CallStep(w["Arc"], w'["Arc"], t, op) =>
                    w'["Arc"].last.out \in {"panic", "block"}]_vars

\* C7 amended: in the multi-threaded binding, once a thread has released a
\* write guard by unwinding from a panic the lock is poisoned (a panic of a
\* read guard's holder does not poison it), a poisoned lock stays poisoned,
\* and no read() or write() on it ever hands out a guard: the call panics
\* (after the wait for the lock, if it had to wait).
C7_WriterPanicPoisons ==
    [][\A t \in Threads : \A a \in Allocs(w["Arc"]) :
        /\ WriteReleasedUnwinding(w["Arc"], w'["Arc"], t, a) => Poisoned(w'["Arc"], a)
        /\ Poisoned(w["Arc"], a) =>
            /\ Poisoned(w'["Arc"], a)
            /\ ~Gained(w["Arc"], w'["Arc"], t)
            /\ \A op \in {"read", "write"} :
                CallStep(w["Arc"], w'["Arc"], t, op) =>
                    w'["Arc"].last.out \in {"panic", "block"}]_vars

\* the lock is poisoned and a later acquisition has just panicked on it
C7_Witness ==
    /\ Poisoned(w["Arc"], 1)
    /\ w["Arc"].last.op \in {"read", "write"}
    /\ w["Arc"].last.out = "panic"
    /\ w["Arc"].heap[1].left # w["Arc"].heap[1].init

\* C8 as claimed: in the multi-threaded binding on a non-poisoned container,
\* a read() or write() called while a guard of another thread conflicts with
\* it waits: it neither panics nor returns a guard while the conflict lasts,
\* and a guard is returned only when no other thread holds a conflicting one.
C8_OthersConflictWaits ==
    [][\A t \in Threads :
        /\ \A op \in {"read", "write"} :
            ( /\ Issued(w["Arc"], w'["Arc"], t, op)
              /\ ~Poisoned(w["Arc"], w'["Arc"].last.a)
              /\ OthersConflict(w["Arc"], t, w'["Arc"].last.a, op) ) =>
                /\ w'["Arc"].last.out = "block"
                /\ Waiting(w'["Arc"], t)
                /\ w'["Arc"].guards = w["Arc"].guards
        /\ (Waiting(w["Arc"], t) /\ OthersConflict(w["Arc"], t, w["Arc"].req[t], WaitOp(w["Arc"], t))) =>
            /\ w'["Arc"].pc[t] = w["Arc"].pc[t]
            /\ w'["Arc"].guards[t] = w["Arc"].guards[t]
        /\ Gained(w["Arc"], w'["Arc"], t) =>
            ~OthersConflict(w["Arc"], t, w'["Arc"].last.a, w'["Arc"].last.op)]_vars

\* C8 amended: the same, for a call by a thread that holds no guard on the
\* container itself (a caller that already holds one may panic instead of
\* waiting).
C8_ConflictWaits ==
    [][\A t \in Threads :
        /\ \A op \in {"read", "write"} :
            ( /\ Issued(w["Arc"], w'["Arc"], t, op)
              /\ ~Poisoned(w["Arc"], w'["Arc"].last.a)
              /\ ~HoldsAny(w["Arc"], t, w'["Arc"].last.a)
              /\ OthersConflict(w["Arc"], t, w'["Arc"].last.a, op) ) =>
                /\ w'["Arc"].last.out = "block"
                /\ Waiting(w'["Arc"], t)
                /\ w'["Arc"].guards = w["Arc"].guards
        /\ (Waiting(w["Arc"], t) /\ OthersConflict(w["Arc"], t, w["Arc"].req[t], WaitOp(w["Arc"], t))) =>
            /\ w'["Arc"].pc[t] = w["Arc"].pc[t]
            /\ w'["Arc"].guards[t] = w["Arc"].guards[t]
        /\ Gained(w["Arc"], w'["Arc"], t) =>
            ~OthersConflict(w["Arc"], t, w'["Arc"].last.a, w'["Arc"].last.op)]_vars

\* a thread with no guard of its own has just called write() and waits,
\* while another thread holds a read guard
C8_Witness ==
    \E t \in Threads :
        /\ w["Arc"].last = Last(t, "write", 1, "block")
        /\ w["Arc"].pc[t] = "waitW"
        /\ w["Arc"].guards[t] = <<>>
        /\ NRead(w["Arc"], 1) >= 1

C10_RcSharedReads ==
    [][\A t \in Threads :
        /\ ( /\ CallStep(w["Rc"], w'["Rc"], t, "read")
             /\ NRead(w["Rc"], w'["Rc"].last.a) >= 1
             /\ NWrite(w["Rc"], w'["Rc"].last.a) = 0 ) =>
                /\ w'["Rc"].last.out = "guard"
                /\ NRead(w'["Rc"], w'["Rc"].last.a) = NRead(w["Rc"], w'["Rc"].last.a) + 1
        /\ \A id \in GuardIds(w'["Rc"]) :
            GuardAt(w'["Rc"], id).kind = "r" =>
                GuardAt(w'["Rc"], id).seen = w'["Rc"].heap[GuardAt(w'["Rc"], id).a].val]_vars

\* a read() has just been granted on top of an outstanding read guard
C10_Witness ==
    /\ w["Rc"].last = Last(1, "read", 1, "guard")
    /\ NRead(w["Rc"], 1) >= 2
    /\ NWrite(w["Rc"], 1) = 0

\* ---------------------------------------------------------------- access state
\* the access the cell of allocation a records: what RefCell's borrow flag, or
\* RwLock's reader count and writer bit, say
Idle == [mode |-> "Idle", n |-> 0]
SharedHeld(n) == [mode |-> "SharedHeld", n |-> n]
ExclusiveHeld == [mode |-> "ExclusiveHeld", n |-> 1]
AccessState(c, a) ==
    IF c.kind = "Rc"
    THEN IF c.heap[a].cell.borrow = 0 THEN Idle
         ELSE IF c.heap[a].cell.borrow > 0 THEN SharedHeld(c.heap[a].cell.borrow)
         ELSE ExclusiveHeld
    ELSE IF c.heap[a].cell.writer THEN ExclusiveHeld
         ELSE IF c.heap[a].cell.readers > 0 THEN SharedHeld(c.heap[a].cell.readers)
         ELSE Idle
\* the access the live guards on allocation a amount to
GuardState(c, a) ==
    IF NWrite(c, a) > 0 THEN ExclusiveHeld
    ELSE IF NRead(c, a) > 0 THEN SharedHeld(NRead(c, a))
    ELSE Idle
\* thread t has fewer guards after the step
Released(c, d, t) == Len(d.guards[t]) < Len(c.guards[t])

\* C11: for both bindings, a guard's claim is released on every way its scope
\* ends, with no release call: after a step in which a thread gives up guards
\* (scope exit while running, unwinding from a panic, or the end of the
\* thread) the container's access state counts exactly the guards still live,
\* a thread that has ended holds no guard, and once no guard is left a
\* write(), and once no write guard is left a read(), can be granted again
\* (on a lock that is not poisoned).
C11_GuardsReleased ==
    [][\A b \in Bindings : \A t \in Threads :
        /\ w'[b].pc[t] = "dead" => w'[b].guards[t] = <<>>
        /\ Released(w[b], w'[b], t) =>
            \A a \in Allocs(w'[b]) :
                /\ AccessState(w'[b], a) = GuardState(w'[b], a)
                /\ (NWrite(w'[b], a) = 0 /\ ~(b = "Arc" /\ Poisoned(w'[b], a))) =>
                    \E r \in Read(w'[b], t, a) : r.last.out = "guard"
                /\ (GuardState(w'[b], a) = Idle /\ ~(b = "Arc" /\ Poisoned(w'[b], a))) =>
                    \A r \in Write(w'[b], t, a) : r.last.out = "guard"]_vars

\* a thread has ended by unwinding from a panic while it held the write
\* guard: the guard is gone and the lock is free again
C11_Witness ==
    \E t \in Threads :
        /\ w["Arc"].pc[t] = "dead"
        /\ Poisoned(w["Arc"], 1)
        /\ GuardState(w["Arc"], 1) = Idle
        /\ AccessState(w["Arc"], 1) = Idle

\* C12: for both bindings, a container is deallocated exactly when its last
\* handle is dropped: it is freed iff no handle points to it, its strong count
\* is the number of its handles, a step that drops a handle while others
\* remain leaves the container and its value as they were, and no guard is
\* live on a freed container.
C12_FreedWithLastHandle ==
    [][\A b \in Bindings : \A a \in Allocs(w'[b]) :
        \E n \in {Cardinality(HandlesTo(w'[b], a))} :
            /\ w'[b].heap[a].freed <=> n = 0
            /\ w'[b].heap[a].strong = n
            /\ w'[b].heap[a].freed => \A id \in GuardIds(w'[b]) : GuardAt(w'[b], id).a # a
            /\ (w'[b].handles # w[b].handles /\ n > 0 /\ n < Cardinality(HandlesTo(w[b], a))) =>
                /\ ~w'[b].heap[a].freed
                /\ w'[b].heap[a].val = w[b].heap[a].val]_vars

\* every handle has been dropped after the value was changed: the container
\* is freed
C12_Witness ==
    \E b \in Bindings :
        /\ w[b].heap[1].freed
        /\ HandleIds(w[b]) = {}
        /\ w[b].heap[1].left = w[b].heap[1].init + MaxIncr

NReleased(c, d, a) ==
    Cardinality({id \in GuardIds(c) : GuardAt(c, id).a = a})
        - Cardinality({id \in GuardIds(d) : GuardAt(d, id).a = a})
\* the access state after k guard drops from state s, each a listed transition:
\* ExclusiveHeld to Idle, SharedHeld(n) to SharedHeld(n - 1), SharedHeld(1) to Idle
AfterDrops(s, k) ==
    IF s.n = k THEN Idle ELSE SharedHeld(s.n - k)
\* the step ends a thread
ThreadEnds(c, d) == \E t \in Threads : c.pc[t] # "dead" /\ d.pc[t] = "dead"
\* the step hands out a guard on allocation a for acquisition op
Granted(c, d, a, op) ==
    /\ d.last.out = "guard"
    /\ d.last.a = a
    /\ \E t \in Threads : CallStep(c, d, t, op)

\* C14: for both bindings, each container's access state always matches its
\* live guards (Idle iff none, SharedHeld(n) iff n read guards, ExclusiveHeld
\* iff one write guard) and moves only by the listed transitions: a granted
\* read() takes Idle to SharedHeld(1) and SharedHeld(n) to SharedHeld(n + 1),
\* a granted write() takes Idle to ExclusiveHeld, a guard drop takes
\* SharedHeld(n) to SharedHeld(n - 1), SharedHeld(1) to Idle and
\* ExclusiveHeld to Idle (a thread that ends drops its guards one after the
\* other), no write() is granted from SharedHeld or ExclusiveHeld, no read()
\* from ExclusiveHeld, and no other step moves the access state.
C14_AccessStateMachine ==
    [][\A b \in Bindings : \A a \in Allocs(w[b]) :
        IF w'[b].guards = w[b].guards
        THEN /\ AccessState(w'[b], a) = AccessState(w[b], a)
             /\ ~Granted(w[b], w'[b], a, "read")
             /\ ~Granted(w[b], w'[b], a, "write")
        ELSE
            \E from \in {AccessState(w[b], a)} : \E to \in {AccessState(w'[b], a)} :
                /\ to = GuardState(w'[b], a)
                /\ to.mode = "SharedHeld" => to.n >= 1
                /\ IF Granted(w[b], w'[b], a, "read")
                   THEN from # ExclusiveHeld /\ to = SharedHeld(from.n + 1)
                   ELSE IF Granted(w[b], w'[b], a, "write")
                   THEN from = Idle /\ to = ExclusiveHeld
                   ELSE \E k \in {NReleased(w[b], w'[b], a)} :
                        IF k > 0
                        THEN /\ from # Idle
                             /\ to = AfterDrops(from, k)
                             /\ k = 1 \/ ThreadEnds(w[b], w'[b])
                        ELSE to = from]_vars

\* a container that has been through ExclusiveHeld (its value has changed) and
\* back to Idle has just moved from SharedHeld(1) to SharedHeld(2) by a read()
C14_Witness ==
    \E b \in Bindings : \E t \in Threads :
        /\ AccessState(w[b], 1) = SharedHeld(2)
        /\ w[b].last = Last(t, "read", 1, "guard")
        /\ w[b].heap[1].val # w[b].heap[1].init

\* no guard that conflicts with the call thread t waits in is live
Available(c, t) ==
    IF c.pc[t] = "waitW" THEN GuardState(c, c.req[t]) = Idle
    ELSE NWrite(c, c.req[t]) = 0

\* C15 as claimed: in the multi-threaded binding on a non-poisoned container,
\* under fair scheduling, if every thread that holds a guard eventually drops
\* it (every thread is without a guard again and again), every thread blocked
\* in read() or write() eventually leaves the blocked state with its guard.
C15_BlockedEventuallyServed ==
    \A t \in Threads :
        ( /\ \A u \in Threads : []<>(w["Arc"].guards[u] = <<>>)
          /\ []~Poisoned(w["Arc"], 1) )
        => [](Waiting(w["Arc"], t) => <>(~Waiting(w["Arc"], t)))

\* C15 amended: in the multi-threaded binding, under fair scheduling, a thread
\* blocked in read() or write() does not stay blocked if from some point on no
\* guard that conflicts with its call is held (guards that are each dropped
\* but taken again and again ahead of it can keep it blocked forever); there
\* is no timeout or cancellation: a blocked call leaves the blocked state
\* only by obtaining its guard, or by panicking on poison.
C15_ServedOnceAvailable ==
    /\ \A t \in Threads :
        []<>(~(Waiting(w["Arc"], t) /\ Available(w["Arc"], t)))
    /\ [][\A t \in Threads :
            (Waiting(w["Arc"], t) /\ w'["Arc"].pc[t] # w["Arc"].pc[t]) =>
                /\ CallStep(w["Arc"], w'["Arc"], t, WaitOp(w["Arc"], t))
                /\ w'["Arc"].last.a = w["Arc"].req[t]
                /\ IF Poisoned(w["Arc"], w["Arc"].req[t])
                   THEN w'["Arc"].last.out = "panic" /\ w'["Arc"].pc[t] = "unwind"
                   ELSE w'["Arc"].last.out = "guard" /\ Gained(w["Arc"], w'["Arc"], t)]_vars

\* a thread waits in write() and the last conflicting guard has just been
\* dropped
C15_Witness ==
    \E t \in Threads :
        /\ w["Arc"].pc[t] = "waitW"
        /\ Available(w["Arc"], t)
        /\ ~Poisoned(w["Arc"], 1)
        /\ w["Arc"].last = NoCall

\* thread t waits in write() on allocation a while it holds a guard on it
SelfDeadlocked(c, t, a) == c.pc[t] = "waitW" /\ c.req[t] = a /\ HoldsAny(c, t, a)
\* acquisition op on allocation a conflicts with a guard thread t holds
ConflictsWith(c, t, a, op) ==
    IF op = "write" THEN HoldsAny(c, t, a) ELSE HoldsWrite(c, t, a)

\* C16 as claimed: in the multi-threaded binding, a write() by a thread that
\* still holds a guard on the same container waits, never obtains the second
\* guard and never releases the first, and every other thread that then
\* requests conflicting access waits forever too.
C16_SelfDeadlock ==
    [][\A t \in Threads : \A a \in Allocs(w["Arc"]) :
        /\ ( /\ Issued(w["Arc"], w'["Arc"], t, "write")
             /\ w'["Arc"].last.a = a
             /\ HoldsAny(w["Arc"], t, a) ) =>
                /\ SelfDeadlocked(w'["Arc"], t, a)
                /\ w'["Arc"].guards = w["Arc"].guards
        /\ SelfDeadlocked(w["Arc"], t, a) =>
            /\ SelfDeadlocked(w'["Arc"], t, a)
            /\ w'["Arc"].guards[t] = w["Arc"].guards[t]
            /\ \A u \in Threads \ {t} : \A op \in {"read", "write"} :
                /\ ( /\ Issued(w["Arc"], w'["Arc"], u, op)
                     /\ w'["Arc"].last.a = a
                     /\ ConflictsWith(w["Arc"], t, a, op) ) =>
                        w'["Arc"].last.out = "block" /\ Waiting(w'["Arc"], u)
                /\ ( /\ Waiting(w["Arc"], u)
                     /\ w["Arc"].req[u] = a
                     /\ ConflictsWith(w["Arc"], t, a, WaitOp(w["Arc"], u)) ) =>
                        w'["Arc"].pc[u] = w["Arc"].pc[u]]_vars

\* C16 amended: in the multi-threaded binding, a write() by a thread that
\* still holds a guard on the same container never obtains the second guard:
\* it either panics (the lock may panic when the calling thread already holds
\* it) or waits, and when it waits it waits forever, its first guard is never
\* released, and every other thread that then requests conflicting access,
\* holding no guard of its own, waits forever too.
C16_SelfDeadlockOrPanic ==
    [][\A t \in Threads : \A a \in Allocs(w["Arc"]) :
        /\ ( /\ Issued(w["Arc"], w'["Arc"], t, "write")
             /\ w'["Arc"].last.a = a
             /\ HoldsAny(w["Arc"], t, a) ) =>
                /\ \/ SelfDeadlocked(w'["Arc"], t, a)
                   \/ w'["Arc"].last.out = "panic" /\ w'["Arc"].pc[t] = "unwind"
                /\ w'["Arc"].guards = w["Arc"].guards
        /\ SelfDeadlocked(w["Arc"], t, a) =>
            /\ SelfDeadlocked(w'["Arc"], t, a)
            /\ w'["Arc"].guards[t] = w["Arc"].guards[t]
            /\ \A u \in Threads \ {t} : \A op \in {"read", "write"} :
                /\ ( /\ Issued(w["Arc"], w'["Arc"], u, op)
                     /\ w'["Arc"].last.a = a
                     /\ ~HoldsAny(w["Arc"], u, a)
                     /\ ConflictsWith(w["Arc"], t, a, op) ) =>
                        w'["Arc"].last.out = "block" /\ Waiting(w'["Arc"], u)
                /\ ( /\ Waiting(w["Arc"], u)
                     /\ w["Arc"].req[u] = a
                     /\ ConflictsWith(w["Arc"], t, a, WaitOp(w["Arc"], u)) ) =>
                        w'["Arc"].pc[u] = w["Arc"].pc[u]]_vars

\* a thread waits in write() while it holds the write guard, and another
\* thread has just called read() and waits as well
C16_Witness ==
    \E t, u \in Threads :
        /\ t # u
        /\ SelfDeadlocked(w["Arc"], t, 1)
        /\ HoldsWrite(w["Arc"], t, 1)
        /\ w["Arc"].last = Last(u, "read", 1, "block")
        /\ w["Arc"].pc[u] = "waitR"

\* C17: for both bindings, the contained value changes only in a step taken
\* through the live write guard by its holder: in a step that changes the
\* value of a container, a running thread holds the write guard on it before
\* and after, and the step is no read() or write() call, granted, failed or
\* blocked, no guard drop, no clone and no handle drop: guards, handles,
\* strong count, access state and every thread's position stay as they were.
C17_ValueFrame ==
    [][\A b \in Bindings : \A a \in Allocs(w[b]) :
        w'[b].heap[a].val # w[b].heap[a].val =>
            /\ \E t \in Threads :
                /\ HoldsWrite(w[b], t, a)
                /\ HoldsWrite(w'[b], t, a)
                /\ w[b].pc[t] = "run"
            /\ w'[b].last = NoCall
            /\ w'[b].guards = w[b].guards
            /\ w'[b].handles = w[b].handles
            /\ w'[b].pc = w[b].pc
            /\ w'[b].heap[a].cell = w[b].heap[a].cell
            /\ w'[b].heap[a].strong = w[b].heap[a].strong
            /\ w'[b].heap[a].freed = w[b].heap[a].freed]_vars

\* the value has just been changed through a write guard that is still live
\* and was handed out when the container held its initial value
C17_Witness ==
    \E b \in Bindings : \E t \in Threads : \E i \in 1..Len(w[b].guards[t]) :
        /\ w[b].guards[t][i] = Guard("w", 1, w[b].heap[1].init)
        /\ w[b].heap[1].val = w[b].heap[1].init + 1
        /\ w[b].last = NoCall

\* what a clone of a handle to allocation a leaves alone, from program c to d
CloneFrame(c, d, a) ==
    /\ d.heap[a].strong = c.heap[a].strong + 1
    /\ Cardinality(HandlesTo(d, a)) = Cardinality(HandlesTo(c, a)) + 1
    /\ d.heap[a].cell = c.heap[a].cell
    /\ AccessState(d, a) = AccessState(c, a)
    /\ d.heap[a].val = c.heap[a].val
    /\ ~d.heap[a].freed
    /\ d.guards = c.guards
    /\ d.req = c.req
    /\ d.last = NoCall

\* C18: for both bindings, a handle can be cloned in every access state and
\* whatever other threads are doing: in every reachable state, for every
\* running thread with a handle, clone() is served at once, whether the
\* clone stays with the thread or starts a new one: it raises the handle
\* count by exactly one and leaves the access state (read guards, write
\* guard, poison flag), the value and every other thread where they were.
C18_CloneFrame ==
    \A b \in Bindings : \A a \in Allocs(w[b]) : \A t \in Threads :
        CanCall(w[b], t, a) =>
            /\ \E d \in {Clone(w[b], t, a)} :
                CloneFrame(w[b], d, a) /\ d.pc = w[b].pc
            /\ \A u \in Threads :
                w[b].pc[u] = "new" =>
                    \E d \in {Spawn(w[b], a, u)} :
                        /\ CloneFrame(w[b], d, a)
                        /\ \A x \in Threads \ {u} : d.pc[x] = w[b].pc[x]

\* a container with two handles is in ExclusiveHeld, the write guard viewing
\* the current value, while the thread that got the clone waits in read()
C18_Witness ==
    /\ w["Arc"].heap[1].strong = 2
    /\ AccessState(w["Arc"], 1) = ExclusiveHeld
    /\ HoldsWrite(w["Arc"], 1, 1)
    /\ w["Arc"].guards[1][1].seen = w["Arc"].heap[1].val
    /\ w["Arc"].pc[2] = "waitR"

\* C19: in the single-threaded binding a failed acquisition has no lasting
\* effect: a read() or write() that panics leaves the heap (value, borrow
\* flag, strong count), the guards and the handles exactly as they were, the
\* RefCell has no poison state, and in every state in which no guard is live
\* on the container a read() and a write() are granted.
C19_RcFailureLeavesNoTrace ==
    [][/\ \A t \in Threads : \A op \in {"read", "write"} :
            (CallStep(w["Rc"], w'["Rc"], t, op) /\ w'["Rc"].last.out = "panic") =>
                /\ Conflict(w["Rc"], w'["Rc"].last.a, op)
                /\ w'["Rc"].heap = w["Rc"].heap
                /\ w'["Rc"].guards = w["Rc"].guards
                /\ w'["Rc"].handles = w["Rc"].handles
       /\ \A a \in Allocs(w'["Rc"]) :
            /\ DOMAIN w'["Rc"].heap[a].cell = {"borrow"}
            /\ GuardState(w'["Rc"], a) = Idle =>
                /\ \A r \in Read(w'["Rc"], 1, a) : r.last.out = "guard"
                /\ \A r \in Write(w'["Rc"], 1, a) : r.last.out = "guard"]_vars

\* a read() has just panicked against a live write guard through which the
\* value had been changed: guard and value are still there
C19_Witness ==
    /\ w["Rc"].last = Last(1, "read", 1, "panic")
    /\ w["Rc"].guards[1] = <<Guard("w", 1, w["Rc"].heap[1].init)>>
    /\ w["Rc"].heap[1].val = w["Rc"].heap[1].init + 1
    /\ w["Rc"].heap[1].cell.borrow = -1

\* C20: in the multi-threaded binding, under fair scheduling, a panic of the
\* write-guard holder does not leave other threads hanging: the unwinding
\* holder's write guard is released and the lock is poisoned, every thread
\* that waits in read() or write() on the poisoned lock, whether it waited
\* already or called later, eventually leaves the call, and it leaves it by
\* panicking, never with a guard.
C20_WriterPanicFreesWaiters ==
    /\ \A t \in Threads :
        (w["Arc"].pc[t] = "unwind" /\ HoldsWrite(w["Arc"], t, 1))
            ~> (~HoldsWrite(w["Arc"], t, 1) /\ Poisoned(w["Arc"], 1) /\ AccessState(w["Arc"], 1) = Idle)
    /\ \A u \in Threads :
        (Poisoned(w["Arc"], 1) /\ Waiting(w["Arc"], u)) ~> (w["Arc"].pc[u] = "unwind")
    /\ [][\A u \in Threads : \A op \in {"read", "write"} :
            (Poisoned(w["Arc"], 1) /\ CallStep(w["Arc"], w'["Arc"], u, op)) =>
                /\ ~Gained(w["Arc"], w'["Arc"], u)
                /\ \/ w'["Arc"].last.out = "panic" /\ w'["Arc"].pc[u] = "unwind"
                   \/ w'["Arc"].last.out = "block" /\ Issued(w["Arc"], w'["Arc"], u, op)]_vars

\* the write-guard holder has ended by a panic, the lock is poisoned, and a
\* thread that waited in write() has just left the call by panicking
C20_Witness ==
    \E t, u \in Threads :
        /\ t # u
        /\ w["Arc"].pc[t] = "dead"
        /\ Poisoned(w["Arc"], 1)
        /\ w["Arc"].last = Last(u, "write", 1, "panic")
        /\ w["Arc"].pc[u] = "unwind"
        /\ GuardState(w["Arc"], 1) = Idle

====
